---- MODULE Spec2Model ----
(***************************************************************************)
(* A model of redthonic.py: typed handles (RedisValue, RedisString,        *)
(* RedisList, RedisSet) that forward container operations to a Redis       *)
(* connection `db`, addressed by the handle's mutable `key`.               *)
(*                                                                         *)
(* Four specifications share the variables:                                *)
(*   SpecKey   rename / renamenx / attribute lookup / curried commands     *)
(*   SpecList  __getitem__ / __setitem__ / append / extend on a list       *)
(*   SpecIter  __iter__ over a list, with an external writer               *)
(*   SpecSet   add / remove / pop / union / intersection / difference      *)
(***************************************************************************)
EXTENDS Integers, Sequences, FiniteSets, TLC

VARIABLES
    db,        \* the store: key -> stored value
    key,       \* self.key of the handle under test
    cls,       \* the handle's class name
    op,        \* name of the last handle operation
    raised,    \* exception the last operation ended with, "none" if it returned
    sent,      \* store commands issued by the last operation, in order
    retFlag,   \* boolean result of the last operation
    retSeq,    \* list result of the last operation
    retSet,    \* set result of the last operation
    retKind,   \* what an attribute lookup produced
    preDb,     \* the store as it was when the last operation began
    preKey,    \* self.key as it was when the last operation began
    argKey,    \* key argument of the last operation (rename target, other.key)
    argVal,    \* value argument of the last operation
    argIdx,    \* slice argument of the last operation: <<start, stop, step>>
    argSet,    \* local collection argument of the last set operation
    pc,        \* position of the running multi-call operation, "idle" if none
    values,    \* extend: the values being appended
    pos,       \* extend: index of the next value to push
    left,      \* __iter__: running offset
    lastLen,   \* __iter__: result of the latest len(self)
    firstLen,  \* __iter__: result of the first len(self) of this iteration
    yielded,   \* __iter__: items yielded so far by this iteration
    prevYield, \* __iter__: items yielded by the previous, completed iteration
    runs,      \* __iter__: iterations started
    ext,       \* number of writes by other clients since the iteration began
    lastRen    \* the latest rename / renamenx this handle completed

vars == <<db, key, cls, op, raised, sent, retFlag, retSeq, retSet, retKind,
          preDb, preKey, argKey, argVal, argIdx, argSet, pc, values, pos,
          left, lastLen, firstLen, yielded, prevYield, runs, ext, lastRen>>

resVars  == <<retFlag, retSeq, retSet, retKind>>
argVars  == <<argKey, argVal, argIdx, argSet>>
extVars  == <<values, pos>>
iterVars == <<left, lastLen, firstLen, yielded, prevYield, runs, ext>>

(***************************************************************************)
(* Bounds of the model.                                                    *)
(***************************************************************************)
MaxLen == 3        \* longest list SpecList stores or appends
MaxIterLen == 41   \* longest list SpecIter starts from
MaxExt == 1        \* writes by other clients during one SpecIter behaviour
MaxRuns == 2       \* iterations started in one SpecIter behaviour

Keys    == {"k1", "k2", "k3"}
Items   == {"spam", "eggs"}
Members == {"eric", "graham", "john"}

Max(a, b) == IF a > b THEN a ELSE b
Min(a, b) == IF a < b THEN a ELSE b

\* An optional integer: <<>> is None, <<n>> is n.
None == <<>>
Some(n) == <<n>>
OrElse(o, d) == IF o = None THEN d ELSE o[1]

(***************************************************************************)
(* Stored values.                                                          *)
(***************************************************************************)
NoValue    == [type |-> "none",   str |-> "", items |-> <<>>, members |-> {}]
StrVal(s)  == [type |-> "string", str |-> s,  items |-> <<>>, members |-> {}]
ListVal(l) == [type |-> "list",   str |-> "", items |-> l,    members |-> {}]
SetVal(m)  == [type |-> "set",    str |-> "", items |-> <<>>, members |-> m]

\* A command as the connection receives it: name, key, value argument.
Cmd(c, k, a) == [cmd |-> c, key |-> k, arg |-> a]

(***************************************************************************)
(* The store's commands, as the handle's calls rely on them.               *)
(***************************************************************************)
DbExists(d, k) == d[k].type # "none"

\* RENAME src dst: moves the value, overwriting dst.  A missing source is a
\* failure, which the connection reports by a false flag or by raising.
DbRename(d, src, dst) ==
    IF DbExists(d, src)
    THEN {[db |-> IF src = dst THEN d
                  ELSE [d EXCEPT ![dst] = d[src], ![src] = NoValue],
           flag |-> TRUE, raises |-> FALSE]}
    ELSE {[db |-> d, flag |-> FALSE, raises |-> FALSE],
          [db |-> d, flag |-> FALSE, raises |-> TRUE]}

\* RENAMENX src dst: as RENAME, but reports 0 and does nothing when dst exists.
DbRenameNX(d, src, dst) ==
    IF ~DbExists(d, src)
    THEN {[db |-> d, flag |-> FALSE, raises |-> FALSE],
          [db |-> d, flag |-> FALSE, raises |-> TRUE]}
    ELSE IF DbExists(d, dst)
    THEN {[db |-> d, flag |-> FALSE, raises |-> FALSE]}
    ELSE {[db |-> [d EXCEPT ![dst] = d[src], ![src] = NoValue],
           flag |-> TRUE, raises |-> FALSE]}

\* LRANGE key start stop: both ends inclusive, negative indices count from
\* the tail, out-of-range ends are clipped.
LRange(l, start, stop) ==
    LET n == Len(l)
        s == IF start < 0 THEN Max(n + start, 0) ELSE start
        e == IF stop < 0 THEN n + stop ELSE Min(stop, n - 1)
    IN  IF s > e \/ s >= n THEN <<>> ELSE SubSeq(l, s + 1, e + 1)

LLen(l) == Len(l)
RPush(l, v) == Append(l, v)
SCard(m) == Cardinality(m)
SIsMember(m, v) == v \in m
SRem(m, v) == m \ {v}
SAdd(m, v) == m \cup {v}

(***************************************************************************)
(* Attribute lookup.                                                       *)
(***************************************************************************)
Classes == {"RedisValue", "RedisString", "RedisList", "RedisSet"}

base_commands == {"exists", "delete", "type", "rename", "renamenx"}

commands(c) ==
    CASE c = "RedisValue"  -> {}
      [] c = "RedisString" -> {"set", "get", "getset", "setnx", "setex", "incr",
                               "incrby", "decr", "decrby", "append", "substr"}
      [] c = "RedisList"   -> {"rpush", "lpush", "llen", "lrange", "ltrim",
                               "lindex", "lset", "lrem", "lpop", "rpop"}
      [] c = "RedisSet"    -> {"sadd", "srem", "spop", "scard", "sismember",
                               "smembers", "srandmembers"}

\* Names the class statement itself defines: found by normal lookup, so
\* __getattr__ is never consulted for them.
methods(c) ==
    {"rename", "renamenx"} \cup
    CASE c = "RedisValue"  -> {}
      [] c = "RedisString" -> {}
      [] c = "RedisList"   -> {"append", "extend"}
      [] c = "RedisSet"    -> {"add", "difference", "intersection", "pop",
                               "remove", "union"}

\* Attributes of the built-in str among the names looked up.
StrAttrs == {"endswith", "upper"}

AttrNames == {"exists", "rename", "get", "append", "llen", "smembers",
              "sunion", "sinter", "sdiff", "union", "endswith", "upper", "bogus"}

\* RedisValue.__getattr__: a forwarding function for a declared command,
\* AttributeError otherwise.
BaseGetAttrAny(c, attr) == "command"
BaseGetAttr(c, attr) ==
    IF attr \in commands(c) \/ attr \in base_commands
    THEN "command" ELSE "AttributeError"

\* RedisString.__getattr__: falls back to the attributes of str.
StringGetAttr(c, attr) ==
    IF BaseGetAttr(c, attr) # "AttributeError" THEN BaseGetAttr(c, attr)
    ELSE IF attr \in StrAttrs THEN "delegate"
    ELSE "AttributeError"

\* getattr(handle, attr): "method", "command", "delegate" or "AttributeError".
Lookup(c, attr) ==
    IF attr \in methods(c) THEN "method"
    ELSE IF c = "RedisString" THEN StringGetAttr(c, attr)
    ELSE BaseGetAttr(c, attr)

(***************************************************************************)
(* Values of the variables an operation does not use.                      *)
(***************************************************************************)
NoRen == [did |-> FALSE, cmd |-> "", old |-> "", new |-> "", ok |-> FALSE]

NoResult ==
    /\ retFlag' = FALSE
    /\ retSeq' = <<>>
    /\ retSet' = {}
    /\ retKind' = ""

NoArgs ==
    /\ argKey' = ""
    /\ argVal' = ""
    /\ argIdx' = <<>>
    /\ argSet' = {}

NoExtend ==
    /\ values' = <<>>
    /\ pos' = 0

\* Every operation records the state it started from.
Begin(name) ==
    /\ op' = name
    /\ preDb' = db
    /\ preKey' = key

InitRest ==
    /\ op = "init"
    /\ raised = "none"
    /\ sent = <<>>
    /\ retFlag = FALSE /\ retSeq = <<>> /\ retSet = {} /\ retKind = ""
    /\ preDb = db /\ preKey = key
    /\ argKey = "" /\ argVal = "" /\ argIdx = <<>> /\ argSet = {}
    /\ pc = "idle"
    /\ values = <<>> /\ pos = 0
    /\ left = 0 /\ lastLen = 0 /\ firstLen = 0
    /\ yielded = <<>> /\ prevYield = <<>> /\ runs = 0 /\ ext = 0
    /\ lastRen = NoRen

(***************************************************************************)
(* RedisValue: rename, renamenx, __getattr__ and the curried commands.     *)
(***************************************************************************)
rename(new) ==
    \E o \in DbRename(db, key, new) :
        /\ Begin("rename")
        /\ sent' = <<Cmd("rename", key, "")>>
        /\ db' = o.db
        /\ argKey' = new /\ argVal' = "" /\ argIdx' = <<>> /\ argSet' = {}
        /\ retSeq' = <<>> /\ retSet' = {} /\ retKind' = ""
        /\ IF o.raises
           THEN /\ raised' = "StoreError"
                /\ retFlag' = FALSE
                /\ key' = key
                /\ lastRen' = lastRen
           ELSE /\ raised' = "none"
                /\ retFlag' = o.flag
                /\ key' = new
                /\ lastRen' = [did |-> TRUE, cmd |-> "rename", old |-> key,
                               new |-> new, ok |-> o.flag]
        /\ UNCHANGED <<cls, pc, extVars, iterVars>>

renamenxAlways(new) ==
    \E o \in DbRenameNX(db, key, new) :
        /\ Begin("renamenx")
        /\ sent' = <<Cmd("renamenx", key, "")>>
        /\ db' = o.db
        /\ argKey' = new /\ argVal' = "" /\ argIdx' = <<>> /\ argSet' = {}
        /\ retSeq' = <<>> /\ retSet' = {} /\ retKind' = ""
        /\ raised' = IF o.raises THEN "StoreError" ELSE "none"
        /\ retFlag' = o.flag
        /\ key' = IF o.raises THEN key ELSE new
        /\ lastRen' = IF o.raises THEN lastRen
                      ELSE [did |-> TRUE, cmd |-> "renamenx", old |-> key,
                            new |-> new, ok |-> o.flag]
        /\ UNCHANGED <<cls, pc, extVars, iterVars>>

renamenx(new) ==
    \E o \in DbRenameNX(db, key, new) :
        /\ Begin("renamenx")
        /\ sent' = <<Cmd("renamenx", key, "")>>
        /\ db' = o.db
        /\ argKey' = new /\ argVal' = "" /\ argIdx' = <<>> /\ argSet' = {}
        /\ retSeq' = <<>> /\ retSet' = {} /\ retKind' = ""
        /\ IF o.raises
           THEN /\ raised' = "StoreError"
                /\ retFlag' = FALSE
                /\ key' = key
                /\ lastRen' = lastRen
           ELSE /\ raised' = "none"
                /\ retFlag' = o.flag
                /\ key' = IF o.flag THEN new ELSE key
                /\ lastRen' = [did |-> TRUE, cmd |-> "renamenx", old |-> key,
                               new |-> new, ok |-> o.flag]
        /\ UNCHANGED <<cls, pc, extVars, iterVars>>

\* getattr(handle, attr) for the names of AttrNames.  A str attribute of a
\* RedisString is read off str(self), which is self.get().
GetAttr(attr) ==
    LET kind == Lookup(cls, attr) IN
    /\ Begin("getattr")
    /\ argVal' = attr /\ argKey' = "" /\ argIdx' = <<>> /\ argSet' = {}
    /\ retFlag' = FALSE /\ retSeq' = <<>> /\ retSet' = {}
    /\ IF kind = "AttributeError"
       THEN /\ raised' = "AttributeError"
            /\ retKind' = ""
            /\ sent' = <<>>
       ELSE IF kind = "delegate"
       THEN /\ sent' = <<Cmd("get", key, "")>>
            /\ raised' = CASE db[key].type = "string" -> "none"
                           [] db[key].type = "none"   -> "TypeError"
                           [] OTHER                   -> "StoreError"
            /\ retKind' = IF db[key].type = "string" THEN "delegate" ELSE ""
       ELSE /\ raised' = "none"
            /\ retKind' = kind
            /\ sent' = <<>>
    /\ UNCHANGED <<db, key, cls, pc, extVars, iterVars, lastRen>>

\* handle.exists() and handle.delete(): the function _curry returns sends
\* the command with self.key as its first argument.
curry(cmd) ==
    /\ Lookup(cls, cmd) = "command"
    /\ Begin(cmd)
    /\ sent' = <<Cmd(cmd, key, "")>>
    /\ raised' = "none"
    /\ retFlag' = DbExists(db, key)
    /\ retSeq' = <<>> /\ retSet' = {} /\ retKind' = ""
    /\ db' = IF cmd = "delete" THEN [db EXCEPT ![key] = NoValue] ELSE db
    /\ NoArgs
    /\ UNCHANGED <<key, cls, pc, extVars, iterVars, lastRen>>

KeyValues == {NoValue, StrVal("spam"), ListVal(<<"eggs">>)}

InitKey ==
    /\ db \in [Keys -> KeyValues]
    /\ key \in Keys
    /\ cls \in Classes
    /\ InitRest

NextKey ==
    \/ \E new \in Keys : rename(new)
    \/ \E new \in Keys : renamenx(new)
    \/ \E attr \in AttrNames : GetAttr(attr)
    \/ \E cmd \in {"exists", "delete"} : curry(cmd)

SpecKey == InitKey /\ [][NextKey]_vars

(***************************************************************************)
(* RedisList: __len__, __getitem__, __setitem__, append, extend.           *)
(***************************************************************************)
items == db[key].items

len ==
    /\ pc = "idle"
    /\ Begin("len")
    /\ sent' = <<Cmd("llen", key, "")>>
    /\ raised' = "none"
    /\ retSeq' = <<LLen(items)>>
    /\ retFlag' = FALSE /\ retSet' = {} /\ retKind' = ""
    /\ NoArgs
    /\ NoExtend
    /\ UNCHANGED <<db, key, cls, pc, iterVars, lastRen>>

\* l[start:stop:step]; an absent bound or step is None.
getitemAnyStep(start, stop, step) ==
    LET first == OrElse(start, 0)
        upto  == OrElse(stop, -1)
        last  == IF upto > 0 THEN upto - 1 ELSE upto
    IN  /\ pc = "idle"
        /\ Begin("getitem")
        /\ argIdx' = <<start, stop, step>>
        /\ argKey' = "" /\ argVal' = "" /\ argSet' = {}
        /\ retFlag' = FALSE /\ retSet' = {} /\ retKind' = ""
        /\ raised' = "none"
        /\ IF first = last
           THEN retSeq' = <<>> /\ sent' = <<>>
           ELSE /\ retSeq' = LRange(items, first, last)
                /\ sent' = <<Cmd("lrange", key, "")>>
        /\ NoExtend
        /\ UNCHANGED <<db, key, cls, pc, iterVars, lastRen>>

getitem(start, stop, step) ==
    LET first == OrElse(start, 0)
        upto  == OrElse(stop, -1)
        \* The rightmost item is included in Redis, but not Python.
        last  == IF upto > 0 THEN upto - 1 ELSE upto
    IN  /\ pc = "idle"
        /\ Begin("getitem")
        /\ argIdx' = <<start, stop, step>>
        /\ argKey' = "" /\ argVal' = "" /\ argSet' = {}
        /\ retFlag' = FALSE /\ retSet' = {} /\ retKind' = ""
        /\ IF step # None /\ step # Some(1)
           THEN /\ raised' = "IndexError"
                /\ retSeq' = <<>>
                /\ sent' = <<>>
           ELSE /\ raised' = "none"
                /\ IF first = last
                   THEN retSeq' = <<>> /\ sent' = <<>>
                   ELSE /\ retSeq' = LRange(items, first, last)
                        /\ sent' = <<Cmd("lrange", key, "")>>
        /\ NoExtend
        /\ UNCHANGED <<db, key, cls, pc, iterVars, lastRen>>

\* l[i] with an integer i: LINDEX, which answers nil out of range.
lindex(i) ==
    LET n == Len(items)
        j == IF i < 0 THEN n + i ELSE i
    IN  /\ pc = "idle"
        /\ Begin("lindex")
        /\ argIdx' = <<Some(i)>>
        /\ argKey' = "" /\ argVal' = "" /\ argSet' = {}
        /\ retFlag' = FALSE /\ retSet' = {} /\ retKind' = ""
        /\ raised' = "none"
        /\ sent' = <<Cmd("lindex", key, "")>>
        /\ retSeq' = IF j >= 0 /\ j < n THEN <<items[j + 1]>> ELSE <<>>
        /\ NoExtend
        /\ UNCHANGED <<db, key, cls, pc, iterVars, lastRen>>

\* l[i] = value: LSET, an error out of range.
setitem(i, value) ==
    LET n == Len(items)
        j == IF i < 0 THEN n + i ELSE i
    IN  /\ pc = "idle"
        /\ Begin("setitem")
        /\ argIdx' = <<Some(i)>>
        /\ argVal' = value /\ argKey' = "" /\ argSet' = {}
        /\ NoResult
        /\ sent' = <<Cmd("lset", key, value)>>
        /\ IF j >= 0 /\ j < n
           THEN /\ raised' = "none"
                /\ db' = [db EXCEPT ![key] = ListVal([items EXCEPT ![j + 1] = value])]
           ELSE /\ raised' = "StoreError"
                /\ db' = db
        /\ NoExtend
        /\ UNCHANGED <<key, cls, pc, iterVars, lastRen>>

\* l.append(value): one RPUSH, whose failure is raised to the caller.
append(value) ==
    /\ pc = "idle"
    /\ Len(items) < MaxLen
    /\ Begin("append")
    /\ argVal' = value /\ argKey' = "" /\ argIdx' = <<>> /\ argSet' = {}
    /\ NoResult
    /\ sent' = <<Cmd("rpush", key, value)>>
    /\ \/ raised' = "none" /\ db' = [db EXCEPT ![key] = ListVal(RPush(items, value))]
       \/ raised' = "StoreError" /\ db' = db
    /\ NoExtend
    /\ UNCHANGED <<key, cls, pc, iterVars, lastRen>>

\* l.extend(vals): enters the for loop; an empty vals returns at once.
extend(vals) ==
    /\ pc = "idle"
    /\ Len(items) + Len(vals) <= MaxLen
    /\ Begin("extend")
    /\ NoArgs
    /\ NoResult
    /\ sent' = <<>>
    /\ raised' = "none"
    /\ values' = vals
    /\ pos' = 1
    /\ pc' = IF vals = <<>> THEN "idle" ELSE "extend"
    /\ UNCHANGED <<db, key, cls, iterVars, lastRen>>

\* One pass of extend's loop: self.append(value).
extendStepGoOn ==
    /\ pc = "extend"
    /\ sent' = Append(sent, Cmd("rpush", key, values[pos]))
    /\ pos' = pos + 1
    /\ pc' = IF pos = Len(values) THEN "idle" ELSE "extend"
    /\ \/ raised' = raised /\ db' = [db EXCEPT ![key] = ListVal(RPush(items, values[pos]))]
       \/ raised' = "StoreError" /\ db' = db
    /\ UNCHANGED <<key, cls, op, preDb, preKey, resVars, argVars, values,
                   iterVars, lastRen>>

extendStep ==
    /\ pc = "extend"
    /\ sent' = Append(sent, Cmd("rpush", key, values[pos]))
    /\ \/ /\ raised' = "none"
          /\ db' = [db EXCEPT ![key] = ListVal(RPush(items, values[pos]))]
          /\ pos' = pos + 1
          /\ pc' = IF pos = Len(values) THEN "idle" ELSE "extend"
       \/ /\ raised' = "StoreError"
          /\ db' = db
          /\ pos' = pos
          /\ pc' = "idle"
    /\ UNCHANGED <<key, cls, op, preDb, preKey, resVars, argVars, values,
                   iterVars, lastRen>>

RECURSIVE SeqsUpTo(_)
SeqsUpTo(n) ==
    IF n = 0 THEN {<<>>}
    ELSE LET shorter == SeqsUpTo(n - 1)
         IN  shorter \cup {Append(l, v) : l \in shorter, v \in Items}

Bounds == {None} \cup {Some(n) : n \in -1 .. MaxLen}
Steps  == {None} \cup {Some(n) : n \in -1 .. 2}

InitList ==
    /\ key = "k1"
    /\ cls = "RedisList"
    /\ \E l \in SeqsUpTo(MaxLen) :
           db = [k \in Keys |-> IF k = key THEN ListVal(l) ELSE NoValue]
    /\ InitRest

NextList ==
    \/ len
    \/ \E start \in Bounds, stop \in Bounds, step \in Steps : getitem(start, stop, step)
    \/ \E i \in -1 .. MaxLen : lindex(i)
    \/ \E i \in -1 .. MaxLen, v \in Items : setitem(i, v)
    \/ \E v \in Items : append(v)
    \/ \E vals \in SeqsUpTo(MaxLen) : extend(vals)
    \/ extendStep

SpecList == InitList /\ [][NextList]_vars

(***************************************************************************)
(* RedisList.__iter__: a generator that pages through the list.  Between   *)
(* two of its store calls other clients may write to the list.             *)
(***************************************************************************)
bufsize == 20

Count(log, c) == Cardinality({i \in 1 .. Len(log) : log[i].cmd = c})

\* iter(l): a fresh generator, started from offset 0.
iter ==
    /\ pc \in {"idle", "done"}
    /\ runs < MaxRuns
    /\ Begin("iter")
    /\ NoArgs
    /\ NoResult
    /\ NoExtend
    /\ sent' = <<>>
    /\ raised' = "none"
    /\ left' = 0
    /\ lastLen' = 0
    /\ firstLen' = 0
    /\ prevYield' = yielded
    /\ yielded' = <<>>
    /\ runs' = runs + 1
    /\ pc' = "test"
    /\ UNCHANGED <<db, key, cls, ext, lastRen>>

\* A variant that asks for the length on entry only.
iterTestOnce ==
    LET n == IF left = 0 THEN LLen(items) ELSE lastLen IN
    /\ pc = "test"
    /\ sent' = IF left = 0 THEN Append(sent, Cmd("llen", key, "")) ELSE sent
    /\ lastLen' = n
    /\ firstLen' = IF left = 0 THEN n ELSE firstLen
    /\ pc' = IF left < n THEN "fetch" ELSE "done"
    /\ UNCHANGED <<db, key, cls, op, raised, resVars, preDb, preKey, argVars,
                   extVars, left, yielded, prevYield, runs, ext, lastRen>>

\* The loop test: while left < len(self).
iterTest ==
    LET n == LLen(items) IN
    /\ pc = "test"
    /\ sent' = Append(sent, Cmd("llen", key, ""))
    /\ lastLen' = n
    /\ firstLen' = IF Count(sent, "llen") = 0 THEN n ELSE firstLen
    /\ pc' = IF left < n THEN "fetch" ELSE "done"
    /\ UNCHANGED <<db, key, cls, op, raised, resVars, preDb, preKey, argVars,
                   extVars, left, yielded, prevYield, runs, ext, lastRen>>

\* A variant whose window is one item too long.
iterFetchLong ==
    /\ pc = "fetch"
    /\ sent' = Append(sent, Cmd("lrange", key, ""))
    /\ yielded' = yielded \o LRange(items, left, left + bufsize)
    /\ left' = left + bufsize
    /\ pc' = "test"
    /\ UNCHANGED <<db, key, cls, op, raised, resVars, preDb, preKey, argVars,
                   extVars, lastLen, firstLen, prevYield, runs, ext, lastRen>>

\* The loop body: one window is fetched, its items are yielded from the
\* local buffer, and the offset moves on.
iterFetch ==
    /\ pc = "fetch"
    /\ sent' = Append(sent, Cmd("lrange", key, ""))
    \* bufsize - 1 because Redis includes the rightmost item.
    /\ yielded' = yielded \o LRange(items, left, left + bufsize - 1)
    /\ left' = left + bufsize
    /\ pc' = "test"
    /\ UNCHANGED <<db, key, cls, op, raised, resVars, preDb, preKey, argVars,
                   extVars, lastLen, firstLen, prevYield, runs, ext, lastRen>>

\* Another client pushes to or pops from the list while the generator is
\* suspended between two store calls.
External ==
    /\ pc \in {"test", "fetch"}
    /\ ext < MaxExt
    /\ ext' = ext + 1
    /\ \E l \in {Append(items, 0), <<0>> \o items} \cup
                (IF items = <<>> THEN {}
                 ELSE {Tail(items), SubSeq(items, 1, Len(items) - 1)}) :
           db' = [db EXCEPT ![key] = ListVal(l)]
    /\ UNCHANGED <<key, cls, op, raised, sent, resVars, preDb, preKey, argVars,
                   pc, extVars, left, lastLen, firstLen, yielded, prevYield,
                   runs, lastRen>>

InitIter ==
    /\ key = "k1"
    /\ cls = "RedisList"
    /\ \E n \in 0 .. MaxIterLen :
           db = [k \in Keys |-> IF k = key THEN ListVal([i \in 1 .. n |-> i])
                                ELSE NoValue]
    /\ InitRest

NextIter ==
    \/ iter
    \/ iterTest
    \/ iterFetch
    \/ External

SpecIter == InitIter /\ [][NextIter]_vars

(***************************************************************************)
(* RedisSet: __contains__, __len__, add, remove, pop and the set algebra.  *)
(***************************************************************************)
members == db[key].members

OtherKey == "k2"

contains(value) ==
    /\ Begin("contains")
    /\ argVal' = value /\ argKey' = "" /\ argIdx' = <<>> /\ argSet' = {}
    /\ sent' = <<Cmd("sismember", key, value)>>
    /\ raised' = "none"
    /\ retFlag' = SIsMember(members, value)
    /\ retSeq' = <<>> /\ retSet' = {} /\ retKind' = ""
    /\ UNCHANGED <<db, key, cls, pc, extVars, iterVars, lastRen>>

slen ==
    /\ Begin("len")
    /\ NoArgs
    /\ sent' = <<Cmd("scard", key, "")>>
    /\ raised' = "none"
    /\ retSeq' = <<SCard(members)>>
    /\ retFlag' = FALSE /\ retSet' = {} /\ retKind' = ""
    /\ UNCHANGED <<db, key, cls, pc, extVars, iterVars, lastRen>>

add(value) ==
    /\ Begin("add")
    /\ argVal' = value /\ argKey' = "" /\ argIdx' = <<>> /\ argSet' = {}
    /\ sent' = <<Cmd("sadd", key, value)>>
    /\ raised' = "none"
    /\ NoResult
    /\ db' = [db EXCEPT ![key] = SetVal(SAdd(members, value))]
    /\ UNCHANGED <<key, cls, pc, extVars, iterVars, lastRen>>

pop ==
    /\ Begin("pop")
    /\ NoArgs
    /\ sent' = <<Cmd("spop", key, "")>>
    /\ raised' = "none"
    /\ retFlag' = FALSE /\ retSeq' = <<>> /\ retKind' = ""
    /\ IF members = {}
       THEN retSet' = {} /\ db' = db
       ELSE \E m \in members :
                /\ retSet' = {m}
                /\ db' = [db EXCEPT ![key] = SetVal(SRem(members, m))]
    /\ UNCHANGED <<key, cls, pc, extVars, iterVars, lastRen>>

removeQuiet(value) ==
    /\ Begin("remove")
    /\ argVal' = value /\ argKey' = "" /\ argIdx' = <<>> /\ argSet' = {}
    /\ sent' = <<Cmd("srem", key, value)>>
    /\ NoResult
    /\ db' = [db EXCEPT ![key] = SetVal(SRem(members, value))]
    /\ raised' = "none"
    /\ UNCHANGED <<key, cls, pc, extVars, iterVars, lastRen>>

\* s.remove(value): SREM answers whether the member was there.
remove(value) ==
    /\ Begin("remove")
    /\ argVal' = value /\ argKey' = "" /\ argIdx' = <<>> /\ argSet' = {}
    /\ sent' = <<Cmd("srem", key, value)>>
    /\ NoResult
    /\ db' = [db EXCEPT ![key] = SetVal(SRem(members, value))]
    /\ raised' = IF SIsMember(members, value) THEN "none" ELSE "KeyError"
    /\ UNCHANGED <<key, cls, pc, extVars, iterVars, lastRen>>

Algebra(name, a, b) ==
    CASE name = "union"        -> a \cup b
      [] name = "intersection" -> a \cap b
      [] name = "difference"   -> a \ b

\* The body shared by difference, intersection and union.  With another
\* RedisSet as operand, self.<server> is looked up and called with
\* other.key; with a local collection, smembers() is combined locally.
SetOp(name, server, isHandle, local) ==
    /\ Begin(name)
    /\ argKey' = IF isHandle THEN OtherKey ELSE ""
    /\ argSet' = IF isHandle THEN {} ELSE local
    /\ argVal' = "" /\ argIdx' = <<>>
    /\ retFlag' = FALSE /\ retSeq' = <<>> /\ retKind' = ""
    /\ IF isHandle
       THEN IF Lookup(cls, server) = "command"
            THEN /\ sent' = <<Cmd(server, key, OtherKey)>>
                 /\ raised' = "none"
                 /\ retSet' = Algebra(name, members, db[OtherKey].members)
            ELSE /\ sent' = <<>>
                 /\ raised' = "AttributeError"
                 /\ retSet' = {}
       ELSE /\ sent' = <<Cmd("smembers", key, "")>>
            /\ raised' = "none"
            /\ retSet' = Algebra(name, members, local)
    /\ UNCHANGED <<db, key, cls, pc, extVars, iterVars, lastRen>>

difference(isHandle, local) == SetOp("difference", "sdiff", isHandle, local)

intersection(isHandle, local) == SetOp("intersection", "sinter", isHandle, local)

union(isHandle, local) == SetOp("union", "sunion", isHandle, local)

InitSet ==
    /\ key = "k1"
    /\ cls = "RedisSet"
    /\ \E a \in SUBSET Members, b \in SUBSET Members :
           db = [k \in Keys |-> CASE k = key      -> SetVal(a)
                                  [] k = OtherKey -> SetVal(b)
                                  [] OTHER        -> NoValue]
    /\ InitRest

NextSet ==
    \/ \E v \in Members : contains(v)
    \/ slen
    \/ \E v \in Members : add(v)
    \/ pop
    \/ \E v \in Members : remove(v)
    \/ \E local \in SUBSET Members : difference(FALSE, local)
    \/ difference(TRUE, {})
    \/ \E local \in SUBSET Members : intersection(FALSE, local)
    \/ intersection(TRUE, {})
    \/ \E local \in SUBSET Members : union(FALSE, local)
    \/ union(TRUE, {})

SpecSet == InitSet /\ [][NextSet]_vars

\* The consumer of the generator keeps asking for the next item.
SpecIterFair == SpecIter /\ WF_vars(iterTest) /\ WF_vars(iterFetch)

(***************************************************************************)
(* Properties.                                                             *)
(***************************************************************************)

\* The host language's l[a:b] for bounds that are absent or within 0..len(l).
PySlice(l, a, b) == SubSeq(l, OrElse(a, 0) + 1, OrElse(b, Len(l)))

InLength(o, l) == o = None \/ (0 <= o[1] /\ o[1] <= Len(l))

\* C1: a step-1 slice l[a:b], each bound absent or within 0..len(l), returns
\* the native half-open slice of the whole list, empty when a = b.
C1_SliceIsNativeSlice ==
    (/\ op = "getitem"
     /\ argIdx[3] \in {None, Some(1)}
     /\ InLength(argIdx[1], items)
     /\ InLength(argIdx[2], items))
    => /\ raised = "none"
       /\ retSeq = PySlice(items, argIdx[1], argIdx[2])

\* C2: rename returns the store's flag; on success the handle's key is the
\* new name, on a reported failure it is still the old one, and later
\* commands are sent with that key.
C2_RenameKeepsKeyOnFailure ==
    /\ (op = "rename" /\ raised = "none")
       => /\ retFlag => key = argKey
          /\ ~retFlag => key = preKey
    /\ (op \in {"exists", "delete"} /\ lastRen.did /\ lastRen.cmd = "rename")
       => sent[1].key = IF lastRen.ok THEN lastRen.new ELSE lastRen.old

\* C3: between two RedisSet handles, union, intersection and difference
\* return normally with the algebra of the two member collections.
C3_HandleAlgebraReturns ==
    (op \in {"union", "intersection", "difference"} /\ argKey = OtherKey)
    => /\ raised = "none"
       /\ retSet = Algebra(op, members, db[OtherKey].members)

\* C4: with no write by another client, an iteration comes to its end and
\* has then yielded exactly lrange(0, -1), each item once and in order; a
\* restarted iteration yields the same sequence again.
C4_IterationIsFullRange ==
    /\ []((op = "iter" /\ ext = 0) =>
            /\ left < Len(items) + bufsize
            /\ pc = "done" =>
                 /\ yielded = LRange(items, 0, -1)
                 /\ runs >= 2 => prevYield = yielded)
    /\ ((pc \in {"test", "fetch"} /\ ext = 0) ~> (pc = "done" \/ ext > 0))

C4_Witness ==
    /\ op = "iter" /\ pc = "done" /\ ext = 0 /\ runs = 2
    /\ Len(items) = 41
    /\ Count(sent, "lrange") = 3
    /\ Len(yielded) = 41

\* C5: renamenx on a handle whose key holds a value: an existing destination
\* gives the failure flag and leaves key and stored value alone; a free
\* destination gives success and the key becomes the new name.
C5_RenameNX ==
    (op = "renamenx" /\ DbExists(preDb, preKey))
    => IF DbExists(preDb, argKey)
       THEN /\ raised = "none" /\ ~retFlag
            /\ key = preKey
            /\ db[preKey] = preDb[preKey]
       ELSE /\ raised = "none" /\ retFlag
            /\ key = argKey
            /\ db[argKey] = preDb[preKey]

C5_Witness ==
    /\ op = "renamenx"
    /\ DbExists(preDb, preKey) /\ DbExists(preDb, argKey) /\ argKey # preKey
    /\ ~retFlag /\ key = preKey

\* C6: remove of an absent value raises KeyError and changes nothing; remove
\* of a member returns, the value is gone and the cardinality is one less.
C6_Remove ==
    op = "remove"
    => IF argVal \notin preDb[preKey].members
       THEN raised = "KeyError" /\ members = preDb[preKey].members
       ELSE /\ raised = "none"
            /\ ~SIsMember(members, argVal)
            /\ SCard(members) = SCard(preDb[preKey].members) - 1

C6_Witness ==
    /\ op = "remove" /\ raised = "none"
    /\ SCard(preDb[preKey].members) = 2 /\ SCard(members) = 1

\* C7: a slice whose step is present and not 1 raises IndexError and sends
\* nothing to the store; an absent step or step 1 never raises it.
C7_StepMustBeOne ==
    op = "getitem"
    => IF argIdx[3] \in {None, Some(1)}
       THEN raised # "IndexError"
       ELSE raised = "IndexError" /\ sent = <<>>

C7_Witness ==
    /\ op = "getitem" /\ argIdx[3] = Some(0)
    /\ raised = "IndexError" /\ sent = <<>> /\ items # <<>>

\* C8: a name that is no base command, no command of the class and no method
\* raises AttributeError and sends nothing; a RedisString raises it only if
\* the name is no attribute of str either, and else asks the store for the
\* value.
C8_UnknownAttribute ==
    op = "getattr"
    => LET declared == argVal \in base_commands \cup commands(cls) \cup methods(cls)
           native   == cls = "RedisString" /\ argVal \in StrAttrs
       IN  /\ (~declared /\ ~native) => (raised = "AttributeError" /\ sent = <<>>)
           /\ (~declared /\ native)
                => (raised # "AttributeError" /\ sent = <<Cmd("get", key, "")>>)
           /\ declared => (raised = "none" /\ sent = <<>>)

C8_Witness ==
    /\ op = "getattr" /\ cls = "RedisSet" /\ argVal = "sunion"
    /\ raised = "AttributeError" /\ sent = <<>>

Ceil(n, d) == (n + d - 1) \div d

\* C9 as stated: one length query per iteration, and the number of windows
\* fixed by the length seen on entry.
C9_LengthQueriedOnce ==
    op = "iter"
    => /\ Count(sent, "llen") <= 1
       /\ pc = "done" => Count(sent, "lrange") = Ceil(firstLen, bufsize)

\* C9 as amended: the length is queried before every window, so the store sees
\* llen, lrange, llen, ... and w windows come with w + 1 length queries; a
\* window is fetched while the offset is below the latest length.
C9_LengthQueriedPerWindow ==
    op = "iter"
    => /\ \A i \in 1 .. Len(sent) :
            sent[i].cmd = IF i % 2 = 1 THEN "llen" ELSE "lrange"
       /\ left = bufsize * Count(sent, "lrange")
       /\ pc = "test"  => Len(sent) % 2 = 0
       /\ pc = "fetch" => Len(sent) % 2 = 1 /\ left < lastLen
       /\ pc = "done"  => /\ Count(sent, "llen") = Count(sent, "lrange") + 1
                          /\ left >= lastLen

C9_Witness ==
    /\ op = "iter" /\ pc = "done" /\ ext > 0
    /\ Count(sent, "llen") = 3
    /\ Count(sent, "lrange") # Ceil(firstLen, bufsize)

\* C10: extend sends one rpush per value, in order; if the k-th push fails
\* the error is raised at once, the list is the original followed by the
\* first k-1 values, and nothing more is pushed.
C10_ExtendPrefix ==
    op = "extend"
    => LET k == Len(sent)
           before == preDb[preKey].items
       IN  /\ k <= Len(values)
           /\ \A i \in 1 .. k : sent[i] = Cmd("rpush", key, values[i])
           /\ raised = "StoreError"
                => pc = "idle" /\ items = before \o SubSeq(values, 1, k - 1)
           /\ raised = "none"
                => /\ items = before \o SubSeq(values, 1, k)
                   /\ pc = "idle" => k = Len(values)

C10_Witness ==
    /\ op = "extend" /\ raised = "StoreError" /\ pc = "idle"
    /\ Len(values) = 3 /\ Len(sent) = 2 /\ Len(items) = 1

====
